---- MODULE Spec2Model ----
(***************************************************************************)
(* Phase 3 C frontend: the networked menu client (core/frontend/main.c)    *)
(* and its mock twin (core/frontend/main_simple.c).                        *)
(*                                                                         *)
(* Text is modelled at the character level: a C string is a sequence of    *)
(* one-character strings.  Standard input is the sequence of characters    *)
(* typed so far (typed), an end-of-file flag (closed) and, per program,    *)
(* the number of characters already consumed (pos).                        *)
(***************************************************************************)
EXTENDS Integers, Sequences, FiniteSets, TLC

\* ------------------------------------------------------------ bounds
\* number of lines the user types in one run
MaxLines == 2
\* the count of "Invalid input" lines is kept up to this value (saturating)
MaxInvalid == 2

\* ------------------------------------------------- program constants
MAX_RESPONSE == 4096
MAX_INPUT == 1024

\* ------------------------------------------------------- characters
NL == "\n"
QUOTE == "\""
BACKSLASH == "\\"
NUL == "NUL"

DigitChars == <<"0", "1", "2", "3", "4", "5", "6", "7", "8", "9">>

IsDigit(c) == \E i \in 1..10 : DigitChars[i] = c

DigitVal(c) == (CHOOSE i \in 1..10 : DigitChars[i] = c) - 1

\* isspace(), as scanf's %d directive uses it to skip leading white space
IsSpace(c) == c \in {" ", NL, "\t"}

Min(a, b) == IF a < b THEN a ELSE b

Take(s, n) == SubSeq(s, 1, Min(n, Len(s)))

IsPrefix(s, t) == Len(s) <= Len(t) /\ SubSeq(t, 1, Len(s)) = s

Fill(n) == [i \in 1..n |-> "a"]

\* the bytes of a buffer up to, not including, its first zero byte
CStr(bytes) ==
    IF \E i \in 1..Len(bytes) : bytes[i] = NUL
    THEN SubSeq(bytes, 1, (CHOOSE i \in 1..Len(bytes) :
                              bytes[i] = NUL /\ \A j \in 1..(i-1) : bytes[j] # NUL) - 1)
    ELSE bytes

\* ------------------------------------------------ printf("%d", n)
RECURSIVE NatToStr(_)
NatToStr(n) ==
    IF n < 10 THEN <<DigitChars[n + 1]>>
    ELSE NatToStr(n \div 10) \o <<DigitChars[(n % 10) + 1]>>

IntToStr(n) == IF n < 0 THEN <<"-">> \o NatToStr(-n) ELSE NatToStr(n)

\* ------------------------------------------------ scanf("%d", &x)
RECURSIVE SkipSpace(_)
SkipSpace(s) == IF s # <<>> /\ IsSpace(Head(s)) THEN SkipSpace(Tail(s)) ELSE s

RECURSIVE DigitRun(_)
DigitRun(s) == IF s # <<>> /\ IsDigit(Head(s)) THEN 1 + DigitRun(Tail(s)) ELSE 0

RECURSIVE DigitsToNat(_, _)
DigitsToNat(s, acc) ==
    IF s = <<>> THEN acc ELSE DigitsToNat(Tail(s), acc * 10 + DigitVal(Head(s)))

\* scanf("%d") on the unread characters s; eof says the stream is at its end
\* once s is used up.  status: "ok" (returns 1), "fail" (returns 0, matching
\* failure), "eof" (returns EOF), "block" (the call waits for more input).
\* used is the number of characters taken from the stream.  White space is
\* skipped first; a sign is part of the input item, so a sign with no digit
\* after it is consumed before the match fails; the first character after the
\* input item stays unread.
ScanfInt(s, eof) ==
    LET t == SkipSpace(s)
        ws == Len(s) - Len(t)
        neg == t # <<>> /\ Head(t) \in {"-", "+"}
        u == IF neg THEN Tail(t) ELSE t
        sg == IF neg THEN 1 ELSE 0
        k == DigitRun(u)
        val == DigitsToNat(SubSeq(u, 1, k), 0)
    IN  IF t = <<>>
        THEN [status |-> IF eof THEN "eof" ELSE "block", val |-> 0, used |-> ws]
        ELSE IF k = Len(u) /\ ~eof
        THEN [status |-> "block", val |-> 0, used |-> ws]
        ELSE IF k = 0
        THEN [status |-> "fail", val |-> 0, used |-> ws + sg]
        ELSE [status |-> "ok",
              val |-> IF neg /\ Head(t) = "-" THEN -val ELSE val,
              used |-> ws + sg + k]

\* ------------------------------------------------ JSON values (json-c)
\* A json_object is a tagged record; a NULL json_object pointer and the JSON
\* value null are the same thing to json_object_object_add and to the
\* serialiser, so both are JNull.
JNull == [t |-> "null", v |-> <<>>]

JStr(s) == [t |-> "str", v |-> s]

JInt(n) == [t |-> "int", v |-> <<n>>]

\* members: a sequence of <<key, value>> pairs in insertion order
JObj(members) == [t |-> "obj", v |-> members]

HasKey(members, key) == \E i \in 1..Len(members) : members[i][1] = key

\* json_object_object_add: an existing key has its value replaced
ObjAdd(obj, key, val) ==
    IF HasKey(obj.v, key)
    THEN JObj([i \in 1..Len(obj.v) |->
                 IF obj.v[i][1] = key THEN <<key, val>> ELSE obj.v[i]])
    ELSE JObj(Append(obj.v, <<key, val>>))

\* json_object_object_get
ObjGet(obj, key) ==
    IF obj.t = "obj" /\ HasKey(obj.v, key)
    THEN obj.v[CHOOSE i \in 1..Len(obj.v) : obj.v[i][1] = key][2]
    ELSE JNull

ParseFail == [ok |-> FALSE, val |-> JNull, next |-> 0]

RECURSIVE SkipWs(_, _)
SkipWs(s, i) == IF i <= Len(s) /\ IsSpace(s[i]) THEN SkipWs(s, i + 1) ELSE i

\* the characters of a string literal from position j (after the opening
\* quote) to the closing quote; an unescaped quote ends the literal
RECURSIVE ScanStr(_, _, _)
ScanStr(s, j, acc) ==
    IF j > Len(s) THEN ParseFail
    ELSE IF s[j] = QUOTE THEN [ok |-> TRUE, val |-> JStr(acc), next |-> j + 1]
    ELSE IF s[j] = BACKSLASH
    THEN IF j + 1 <= Len(s) /\ s[j + 1] \in {QUOTE, BACKSLASH, "/"}
         THEN ScanStr(s, j + 2, Append(acc, s[j + 1]))
         ELSE ParseFail
    ELSE ScanStr(s, j + 1, Append(acc, s[j]))

ParseNumber(s, i) ==
    LET neg == s[i] = "-"
        j == IF neg THEN i + 1 ELSE i
        k == DigitRun(SubSeq(s, j, Len(s)))
        n == DigitsToNat(SubSeq(s, j, j + k - 1), 0)
    IN  IF k = 0 THEN ParseFail
        ELSE [ok |-> TRUE, val |-> JInt(IF neg THEN -n ELSE n), next |-> j + k]

RECURSIVE ParseValue(_, _)
RECURSIVE ParseMembers(_, _, _)

\* the members of an object from position i, which follows "{" or ","
ParseMembers(s, i, acc) ==
    LET a == SkipWs(s, i)
    IN  IF a > Len(s) \/ s[a] # QUOTE THEN ParseFail
        ELSE LET key == ScanStr(s, a + 1, <<>>)
             IN  IF ~key.ok THEN ParseFail
                 ELSE LET b == SkipWs(s, key.next)
                      IN  IF b > Len(s) \/ s[b] # ":" THEN ParseFail
                          ELSE LET val == ParseValue(s, b + 1)
                               IN  IF ~val.ok THEN ParseFail
                                   ELSE LET c == SkipWs(s, val.next)
                                            obj == ObjAdd(acc, key.val.v, val.val)
                                        IN  IF c > Len(s) THEN ParseFail
                                            ELSE IF s[c] = "}"
                                            THEN [ok |-> TRUE, val |-> obj, next |-> c + 1]
                                            ELSE IF s[c] = ","
                                            THEN ParseMembers(s, c + 1, obj)
                                            ELSE ParseFail

ParseValue(s, i) ==
    LET a == SkipWs(s, i)
    IN  IF a > Len(s) THEN ParseFail
        ELSE IF s[a] = "{"
        THEN LET b == SkipWs(s, a + 1)
             IN  IF b <= Len(s) /\ s[b] = "}"
                 THEN [ok |-> TRUE, val |-> JObj(<<>>), next |-> b + 1]
                 ELSE ParseMembers(s, a + 1, JObj(<<>>))
        ELSE IF s[a] = QUOTE THEN ScanStr(s, a + 1, <<>>)
        ELSE IF IsDigit(s[a]) \/ s[a] = "-" THEN ParseNumber(s, a)
        ELSE ParseFail

\* json_tokener_parse: the first JSON value of the text, NULL when the text
\* does not start with a complete value; characters after the value are
\* ignored (the tokener is not in strict mode).  Objects, string literals
\* with the escapes \" \\ \/ and integers are covered.
json_tokener_parse(str) ==
    LET r == ParseValue(str, 1) IN IF r.ok THEN r.val ELSE JNull

\* ------------------------------------------------------------ state
Variants == {"net", "mock"}

VARIABLES
    running,     \* the programs started in this run (a subset of Variants)
    typed,       \* all characters typed on standard input so far
    closed,      \* standard input has reached end of file
    nLines,      \* number of lines typed so far
    pos,         \* pos[v]: characters of typed the program v has consumed
    pc,          \* pc[v]: the statement program v is at
    site,        \* site[v]: the case of the switch program v is inside (0: none)
    choice,      \* choice[v]: the int variable choice
    input,       \* input[v]: the C string held in char input[]
    out,         \* out[v]: what v printed since it last printed the menu
    status,      \* status[v]: <<>> while running, <<n>> after return n
    menuChoice,  \* menuChoice[v]: <<c>> once this iteration's choice c is read
    nInvalid,    \* nInvalid[v]: "Invalid input" lines printed (saturating)
    hist,        \* hist[v]: the input reads and the switch cases taken so far
    result,      \* the C string held in char result[] (main.c)
    frame,       \* the locals of the running call_mcp_tool
    delivered,   \* number of bytes of sentBody libcurl has handed over
    entryResult, \* result as it was when call_mcp_tool was entered
    sentBody,    \* the whole body the server sends for the current call
    calls,       \* the call_mcp_tool invocations made since the menu was printed
    posted       \* the envelopes POSTed since the menu was printed

envVars == <<typed, closed, nLines>>

progVars == <<pos, pc, site, choice, input, out, status, menuChoice, nInvalid, hist>>

callVars == <<result, frame, delivered, entryResult, sentBody, calls, posted>>

vars == <<running, envVars, progVars, callVars>>

\* ------------------------------------------------------ environment
\* the lines a user types: the eight menu choices, two other integers, a
\* word, a word followed by a menu choice, and a double quote
Lines == { <<"1", NL>>, <<"2", NL>>, <<"3", NL>>, <<"4", NL>>, <<"5", NL>>,
           <<"6", NL>>, <<"7", NL>>, <<"8", NL>>, <<"1", "2", NL>>,
           <<"-", "1", NL>>, <<"x", NL>>, <<"x", " ", "2", NL>>, <<QUOTE, NL>> }

\* the response bodies a server sends: none, a short one, one longer than
\* the result buffer
Bodies == { <<>>, <<"o", "k">>, Fill(MAX_RESPONSE + 1) }

\* char input[] and char result[] are not initialised: until first written a
\* buffer holds Uninit, and a read of it finds any of the strings of Garbage
Uninit == <<"UNINIT">>

Garbage == { <<>>, <<"?">> }

\* the strings a read of buffer buf can find
Contents(buf) == IF buf = Uninit THEN Garbage ELSE {buf}

Unread(v) == SubSeq(typed, pos[v] + 1, Len(typed))

\* ----------------------------------------------------------- output
Ev(tag, text) == [tag |-> tag, text |-> text]

Say(v, tag, text) == out' = [out EXCEPT ![v] = Append(@, Ev(tag, text))]

Rd(at, from, to, val) == [at |-> at, from |-> from, to |-> to, val |-> val]

Log(v, e) == hist' = [hist EXCEPT ![v] = Append(@, e)]

Goto(v, l) == pc' = [pc EXCEPT ![v] = l]

\* ------------------------------------------------- the menu loop
\* print_menu(), at the head of the while loop; what was printed before
\* belongs to the previous iteration
PrintMenu(v) ==
    /\ v \in running
    /\ pc[v] = "menu"
    /\ out' = [out EXCEPT ![v] = <<>>]
    /\ menuChoice' = [menuChoice EXCEPT ![v] = <<>>]
    /\ site' = [site EXCEPT ![v] = 0]
    /\ Goto(v, "choice_scanf")
    /\ UNCHANGED <<running, envVars, pos, choice, input, status, nInvalid, hist>>

\* if (scanf("%d", &choice) != 1) { printf("Invalid input\n"); continue; }
ScanChoice(v) ==
    /\ v \in running
    /\ pc[v] = "choice_scanf"
    /\ LET r == ScanfInt(Unread(v), closed)
       IN  /\ r.status # "block"
           /\ pos' = [pos EXCEPT ![v] = @ + r.used]
           /\ IF r.status = "ok"
              THEN /\ choice' = [choice EXCEPT ![v] = r.val]
                   /\ menuChoice' = [menuChoice EXCEPT ![v] = <<r.val>>]
                   /\ Log(v, Rd("choice", pos[v], pos[v] + r.used, r.val))
                   /\ Goto(v, "switch")
                   /\ UNCHANGED <<out, nInvalid>>
              ELSE /\ Say(v, "Invalid input\n", <<>>)
                   /\ nInvalid' = [nInvalid EXCEPT ![v] = Min(@ + 1, MaxInvalid)]
                   /\ IF r.used > 0
                      THEN Log(v, Rd("choice_fail", pos[v], pos[v] + r.used, 0))
                      ELSE UNCHANGED hist
                   /\ Goto(v, "menu")
                   /\ UNCHANGED <<choice, menuChoice>>
    /\ UNCHANGED <<running, envVars, site, input, status>>

\* (mutant: case 7 has no break and runs on into case 8)
SwitchCase_fallthrough(c) == IF c = 7 THEN 8 ELSE IF c \in 1..8 THEN c ELSE 0

\* the label of the switch statement an int selects (0: default)
SwitchCase(c) == IF c \in 1..8 THEN c ELSE 0

\* case 8: printf("Goodbye!\n"); return 0;
ExitCase(v) ==
    /\ Say(v, "Goodbye!\n", <<>>)
    /\ status' = [status EXCEPT ![v] = <<0>>]
    /\ Goto(v, "exited")

\* default: printf("Invalid choice\n");
DefaultCase(v) ==
    /\ Say(v, "Invalid choice\n", <<>>)
    /\ Goto(v, "menu")
    /\ UNCHANGED status

\* getchar(); // consume newline
GetChar(v) ==
    /\ v \in running
    /\ pc[v] = "c1_getchar"
    /\ Unread(v) # <<>> \/ closed
    /\ IF Unread(v) # <<>>
       THEN /\ pos' = [pos EXCEPT ![v] = @ + 1]
            /\ Log(v, Rd("getchar", pos[v], pos[v] + 1, 0))
       ELSE UNCHANGED <<pos, hist>>
    /\ Goto(v, "c1_fgets")
    /\ UNCHANGED <<running, envVars, site, choice, input, out, status, menuChoice,
                   nInvalid>>

FirstNL(s) ==
    IF \E i \in 1..Len(s) : s[i] = NL
    THEN CHOOSE i \in 1..Len(s) : s[i] = NL /\ \A j \in 1..(i - 1) : s[j] # NL
    ELSE 0

\* fgets(buf, size, stdin) on the unread characters s: the characters it
\* stores (through the first newline, at most size-1 of them; none when the
\* stream is at its end and fgets returns NULL), or that the call waits
FgetsRead(s, size, eof) ==
    LET nl == FirstNL(s)
    IN  IF nl # 0 /\ nl <= size - 1 THEN [block |-> FALSE, line |-> Take(s, nl)]
        ELSE IF Len(s) >= size - 1 THEN [block |-> FALSE, line |-> Take(s, size - 1)]
        ELSE IF eof THEN [block |-> FALSE, line |-> s]
        ELSE [block |-> TRUE, line |-> <<>>]

\* input[strcspn(input, "\n")] = 0;
StripNL(s) == IF FirstNL(s) = 0 THEN s ELSE Take(s, FirstNL(s) - 1)

\* fgets(input, sizeof(input), stdin); input[strcspn(input, "\n")] = 0;
\* the return value of fgets is not looked at: at end of input the buffer
\* keeps what it held
\* (old is what the buffer is found to hold)
PromptText(v, old) ==
    LET r == FgetsRead(Unread(v), MAX_INPUT, closed)
    IN  StripNL(IF r.line = <<>> THEN old ELSE r.line)

Fgets(v, old) ==
    /\ v \in running
    /\ pc[v] = "c1_fgets"
    /\ LET r == FgetsRead(Unread(v), MAX_INPUT, closed)
       IN  /\ ~r.block
           /\ pos' = [pos EXCEPT ![v] = @ + Len(r.line)]
           /\ IF r.line # <<>>
              THEN Log(v, Rd("fgets", pos[v], pos[v] + Len(r.line), 0))
              ELSE UNCHANGED hist
    /\ input' = [input EXCEPT ![v] = PromptText(v, old)]
    /\ UNCHANGED <<running, envVars, site, choice, status, menuChoice, nInvalid>>

\* the value of choice after scanf("%d", &choice) at the debug-level prompt:
\* the return value of scanf is not looked at, so a failed conversion leaves
\* choice as it was
LevelValue(v) ==
    LET r == ScanfInt(Unread(v), closed)
    IN  IF r.status = "ok" THEN r.val ELSE choice[v]

\* scanf("%d", &choice); inside case 4
ScanLevel(v) ==
    /\ v \in running
    /\ pc[v] = "c4_scanf"
    /\ LET r == ScanfInt(Unread(v), closed)
       IN  /\ r.status # "block"
           /\ pos' = [pos EXCEPT ![v] = @ + r.used]
           /\ choice' = [choice EXCEPT ![v] = LevelValue(v)]
           /\ IF r.status = "ok"
              THEN Log(v, Rd("level", pos[v], pos[v] + r.used, r.val))
              ELSE IF r.used > 0
              THEN Log(v, Rd("level_fail", pos[v], pos[v] + r.used, 0))
              ELSE UNCHANGED hist
    /\ UNCHANGED <<running, envVars, site, input, status, menuChoice, nInvalid>>

\* ------------------------------------------------------ the user
\* program v is inside a read that cannot return until more is typed
Blocked(v) ==
    /\ ~closed
    /\ CASE pc[v] \in {"choice_scanf", "c4_scanf"} ->
                ScanfInt(Unread(v), closed).status = "block"
         [] pc[v] = "c1_getchar" -> Unread(v) = <<>>
         [] pc[v] = "c1_fgets" -> FgetsRead(Unread(v), MAX_INPUT, closed).block
         [] OTHER -> FALSE

\* What a program reads depends on the characters of the stream, not on the
\* moment they were typed, so the user acts when the programs wait for input.
Waiting ==
    /\ \E v \in running : Blocked(v)
    /\ \A v \in running : Blocked(v) \/ pc[v] = "exited"

\* the user types one more line
TypeLine ==
    /\ ~closed
    /\ nLines < MaxLines
    /\ Waiting
    /\ \E l \in Lines : typed' = typed \o l
    /\ nLines' = nLines + 1
    /\ UNCHANGED <<running, closed, progVars, callVars>>

\* the user ends the input (Ctrl-D, or the end of a piped file)
CloseStdin ==
    /\ ~closed
    /\ Waiting
    /\ closed' = TRUE
    /\ UNCHANGED <<running, typed, nLines, progVars, callVars>>


\* --------------------------------------------- call_mcp_tool (main.c)
EmptyArgs == <<"{", "}">>

\* "{\"prompt\":\"%s\"}"
PromptArgs(p) ==
    <<"{", QUOTE, "p", "r", "o", "m", "p", "t", QUOTE, ":", QUOTE>> \o p \o <<QUOTE, "}">>

\* "{\"level\":%d}"
LevelArgs(n) ==
    <<"{", QUOTE, "l", "e", "v", "e", "l", QUOTE, ":">> \o IntToStr(n) \o <<"}">>

\* snprintf(buf, size, ...): at most size-1 characters are stored
Snprintf(size, text) == Take(text, size - 1)

\* strncpy(dst, src, n); dst[n] = '\0': the C string dst holds afterwards
Strncpy(src, n) == Take(CStr(src), n)

\* (mutant: result[] has been emptied before *args is parsed)
Deref_cleared(ptr) == IF ptr = "result" THEN <<>> ELSE EmptyArgs

\* const char *args points either at the literal "{}" or at result[]
Deref(ptr) == IF ptr = "result" THEN result ELSE EmptyArgs

NoFrame ==
    [tool |-> "", args |-> "lit", curl |-> "none", request |-> JNull,
     data |-> "NULL", bytes |-> <<>>, size |-> 0, res |-> "none", ret |-> 0]

\* the call call_mcp_tool(tool, ptr, result), made with result[] holding r;
\* calls records the tool, the text of *args at entry and, once the call has
\* returned n, <<n>>
EnterCall(tool, ptr, r) ==
    /\ frame' = [NoFrame EXCEPT !.tool = tool, !.args = ptr]
    /\ entryResult' = r
    /\ calls' = Append(calls, [tool |-> tool,
                               args |-> IF ptr = "result" THEN r ELSE EmptyArgs,
                               ret |-> <<>>])
    /\ delivered' = 0
    /\ sentBody' = <<>>
    /\ UNCHANGED posted

\* curl = curl_easy_init(); if (!curl) return -1;
CurlInit ==
    /\ "net" \in running
    /\ pc["net"] = "cmt_init"
    /\ \E ok \in BOOLEAN :
          IF ok
          THEN /\ frame' = [frame EXCEPT !.curl = "handle"]
               /\ Goto("net", "cmt_build")
               /\ UNCHANGED calls
          ELSE /\ frame' = [frame EXCEPT !.ret = -1]
               /\ calls' = [calls EXCEPT ![Len(calls)].ret = <<-1>>]
               /\ Goto("net", "call_return")
    /\ UNCHANGED <<running, envVars, pos, site, choice, input, out, status,
                   menuChoice, nInvalid, hist, result, delivered, entryResult, sentBody,
                   posted>>

\* the request object of lines 37-50
Envelope(tool, args) ==
    LET params == ObjAdd(ObjAdd(JObj(<<>>), "name", JStr(tool)),
                         "arguments", json_tokener_parse(args))
    IN  ObjAdd(ObjAdd(ObjAdd(ObjAdd(JObj(<<>>),
            "jsonrpc", JStr("2.0")), "method", JStr("tools/call")),
            "id", JInt(1)), "params", params)

\* lines 37-62: the envelope is built from *args as it is now; the text
\* handed to CURLOPT_POSTFIELDS is the serialisation of this object
BuildRequest ==
    /\ "net" \in running
    /\ pc["net"] = "cmt_build"
    /\ frame' = [frame EXCEPT !.request = Envelope(frame.tool, Deref(frame.args))]
    /\ Goto("net", "cmt_perform")
    /\ UNCHANGED <<running, envVars, pos, site, choice, input, out, status,
                   menuChoice, nInvalid, hist, result, delivered, entryResult, sentBody,
                   calls, posted>>

\* curl_easy_perform: the request goes out and the server chooses its body
PerformSend ==
    /\ "net" \in running
    /\ pc["net"] = "cmt_perform"
    /\ \E b \in Bodies : sentBody' = b
    /\ delivered' = 0
    /\ posted' = Append(posted, frame.request)
    /\ Goto("net", "cmt_recv")
    /\ UNCHANGED <<running, envVars, pos, site, choice, input, out, status,
                   menuChoice, nInvalid, hist, result, frame, entryResult, calls>>

\* curl_easy_perform: the connection cannot be made (server unreachable)
PerformConnectFail ==
    /\ "net" \in running
    /\ pc["net"] = "cmt_perform"
    /\ frame' = [frame EXCEPT !.res = "ERR"]
    /\ Goto("net", "cmt_copy")
    /\ UNCHANGED <<running, envVars, pos, site, choice, input, out, status,
                   menuChoice, nInvalid, hist, result, delivered, entryResult, sentBody,
                   calls, posted>>

\* WriteCallback(contents, size, nmemb, response), realloc succeeding or not:
\* the response afterwards and the value returned
WriteCallbackResult(resp, contents, reallocOk) ==
    LET realsize == Len(contents)
    IN  IF ~reallocOk
        THEN [resp |-> resp, returned |-> 0]
        ELSE [resp |-> [resp EXCEPT !.data = "live",
                                    !.bytes = SubSeq(resp.bytes, 1, resp.size) \o contents,
                                    !.size = resp.size + realsize],
              returned |-> realsize]

\* the sizes of the piece libcurl hands to the callback next: all that is
\* left, or a first piece of one byte; for an empty body libcurl may call it
\* once with no data, or not at all
ChunkSizes ==
    LET left == Len(sentBody) - delivered
    IN  IF left > 0
        THEN {left} \cup (IF delivered = 0 /\ left > 1 THEN {1} ELSE {})
        ELSE IF sentBody = <<>> /\ frame.data = "NULL" THEN {0} ELSE {}

\* libcurl delivers a piece of the body; a return value other than the
\* piece's size aborts the transfer with CURLE_WRITE_ERROR
WriteCallback ==
    /\ "net" \in running
    /\ pc["net"] = "cmt_recv"
    /\ \E k \in ChunkSizes : \E reallocOk \in BOOLEAN :
          LET w == WriteCallbackResult(frame,
                        SubSeq(sentBody, delivered + 1, delivered + k), reallocOk)
          IN  IF w.returned = k
              THEN /\ frame' = w.resp
                   /\ delivered' = delivered + k
                   /\ UNCHANGED pc
              ELSE /\ frame' = [w.resp EXCEPT !.res = "ERR"]
                   /\ UNCHANGED delivered
                   /\ Goto("net", "cmt_copy")
    /\ UNCHANGED <<running, envVars, pos, site, choice, input, out, status,
                   menuChoice, nInvalid, hist, result, entryResult, sentBody,
                   calls, posted>>

\* curl_easy_perform returns CURLE_OK: the whole body has been delivered
PerformDone ==
    /\ "net" \in running
    /\ pc["net"] = "cmt_recv"
    /\ delivered = Len(sentBody)
    /\ frame' = [frame EXCEPT !.res = "OK"]
    /\ Goto("net", "cmt_copy")
    /\ UNCHANGED <<running, envVars, pos, site, choice, input, out, status,
                   menuChoice, nInvalid, hist, result, delivered, entryResult, sentBody,
                   calls, posted>>

\* curl_easy_perform returns an error: the transfer broke off
PerformAbort ==
    /\ "net" \in running
    /\ pc["net"] = "cmt_recv"
    /\ frame' = [frame EXCEPT !.res = "ERR"]
    /\ Goto("net", "cmt_copy")
    /\ UNCHANGED <<running, envVars, pos, site, choice, input, out, status,
                   menuChoice, nInvalid, hist, result, delivered, entryResult, sentBody,
                   calls, posted>>

\* (mutant: the copy-out does not look at res)
CopiedResult_unchecked(fr, old) ==
    IF fr.data # "NULL"
    THEN Strncpy(SubSeq(fr.bytes, 1, fr.size), MAX_RESPONSE - 1)
    ELSE old

\* lines 66-69: result[] after the copy-out
CopiedResult(fr, old) ==
    IF fr.res = "OK" /\ fr.data # "NULL"
    THEN Strncpy(SubSeq(fr.bytes, 1, fr.size), MAX_RESPONSE - 1)
    ELSE old

CopyResult ==
    /\ "net" \in running
    /\ pc["net"] = "cmt_copy"
    /\ result' = CopiedResult(frame, result)
    /\ Goto("net", "cmt_cleanup")
    /\ UNCHANGED <<running, envVars, pos, site, choice, input, out, status,
                   menuChoice, nInvalid, hist, frame, delivered, entryResult, sentBody,
                   calls, posted>>

\* return (res == CURLE_OK) ? 0 : -1;
ReturnValue(fr) == IF fr.res = "OK" THEN 0 ELSE -1

\* lines 71-76: release the handle, the request and the response, return
Cleanup ==
    /\ "net" \in running
    /\ pc["net"] = "cmt_cleanup"
    /\ frame' = [frame EXCEPT !.curl = "cleaned",
                              !.data = IF @ = "live" THEN "freed" ELSE @,
                              !.ret = ReturnValue(frame)]
    /\ calls' = [calls EXCEPT ![Len(calls)].ret = <<ReturnValue(frame)>>]
    /\ Goto("net", "call_return")
    /\ UNCHANGED <<running, envVars, pos, site, choice, input, out, status,
                   menuChoice, nInvalid, hist, result, delivered, entryResult, sentBody,
                   posted>>

\* ------------------------------------------------- main (main.c)
NetPrintMenu ==
    /\ PrintMenu("net")
    /\ calls' = <<>>
    /\ posted' = <<>>
    /\ UNCHANGED <<result, frame, delivered, entryResult, sentBody>>

NetScanChoice == ScanChoice("net") /\ UNCHANGED callVars

\* (mutant: cases 5 and 6 pass each other's tool name)
NetTool_swapped(c) ==
    CASE c = 1 -> "generate"
      [] c = 2 -> "get_status"
      [] c = 3 -> "start_frontend"
      [] c = 4 -> "set_debug"
      [] c = 5 -> "db_status"
      [] c = 6 -> "get_agent_config"
      [] c = 7 -> "get_settings"

\* the tool name each case of the switch passes to call_mcp_tool
NetTool(c) ==
    CASE c = 1 -> "generate"
      [] c = 2 -> "get_status"
      [] c = 3 -> "start_frontend"
      [] c = 4 -> "set_debug"
      [] c = 5 -> "get_agent_config"
      [] c = 6 -> "db_status"
      [] c = 7 -> "get_settings"

\* switch (choice), up to the first input or call of the case taken
NetDispatch ==
    /\ "net" \in running
    /\ pc["net"] = "switch"
    /\ LET c == SwitchCase(choice["net"])
       IN  /\ site' = [site EXCEPT !["net"] = c]
           /\ Log("net", Rd("case", pos["net"], pos["net"], c))
           /\ CASE c = 1 ->
                    /\ Say("net", "Enter prompt: ", <<>>)
                    /\ Goto("net", "c1_getchar")
                    /\ UNCHANGED <<status, callVars>>
                [] c = 4 ->
                    /\ Say("net", "Debug level (0-3): ", <<>>)
                    /\ Goto("net", "c4_scanf")
                    /\ UNCHANGED <<status, callVars>>
                [] c \in {2, 3, 5, 6, 7} ->
                    /\ EnterCall(NetTool(c), "lit", result)
                    /\ Goto("net", "cmt_init")
                    /\ UNCHANGED <<out, status, result>>
                [] c = 8 -> ExitCase("net") /\ UNCHANGED callVars
                [] OTHER -> DefaultCase("net") /\ UNCHANGED callVars
    /\ UNCHANGED <<running, envVars, pos, choice, input, menuChoice, nInvalid>>

NetGetChar == GetChar("net") /\ UNCHANGED callVars

\* lines 112-116, to the entry of call_mcp_tool("generate", result, result)
NetFgets ==
    \E old \in Contents(input["net"]) :
        /\ Fgets("net", old)
        /\ result' = Snprintf(MAX_RESPONSE, PromptArgs(PromptText("net", old)))
        /\ EnterCall(NetTool(1), "result",
                     Snprintf(MAX_RESPONSE, PromptArgs(PromptText("net", old))))
        /\ Goto("net", "cmt_init")
        /\ UNCHANGED out

\* lines 141-143, to the entry of call_mcp_tool("set_debug", result, result)
NetScanLevel ==
    /\ ScanLevel("net")
    /\ result' = Snprintf(MAX_RESPONSE, LevelArgs(LevelValue("net")))
    /\ EnterCall(NetTool(4), "result",
                 Snprintf(MAX_RESPONSE, LevelArgs(LevelValue("net"))))
    /\ Goto("net", "cmt_init")
    /\ UNCHANGED out

\* the format each case prints result with when the call returned 0
SuccessFmt(c) ==
    CASE c = 1 -> "Result: %s\n"
      [] c = 2 -> "Status: %s\n"
      [] c = 3 -> "Frontend: %s\n"
      [] c = 4 -> "Debug: %s\n"
      [] c = 5 -> "Config: %s\n"
      [] c = 6 -> "Database: %s\n"
      [] c = 7 -> "Settings: %s\n"

\* what each case prints when the call did not return 0: cases 1 to 3 have
\* an else branch, cases 4 to 7 have none
ErrorLines(c) ==
    CASE c = 1 -> <<Ev("Error calling generate tool\n", <<>>)>>
      [] c = 2 -> <<Ev("Error getting status\n", <<>>)>>
      [] c = 3 -> <<Ev("Error starting frontend\n", <<>>)>>
      [] OTHER -> <<>>

\* the if (call_mcp_tool(...) == 0) ... of the case, then break; the locals
\* of the call are gone
NetAfterCall ==
    /\ "net" \in running
    /\ pc["net"] = "call_return"
    /\ \E text \in Contents(result) :
          out' = [out EXCEPT !["net"] =
                    IF frame.ret = 0
                    THEN Append(@, Ev(SuccessFmt(site["net"]), text))
                    ELSE @ \o ErrorLines(site["net"])]
    /\ Goto("net", "menu")
    /\ frame' = NoFrame
    /\ delivered' = 0
    /\ entryResult' = <<>>
    /\ sentBody' = <<>>
    /\ UNCHANGED <<running, envVars, pos, site, choice, input, status, menuChoice,
                   nInvalid, hist, result, calls, posted>>

\* ------------------------------------------- main (main_simple.c)
MockPrintMenu == PrintMenu("mock") /\ UNCHANGED callVars

MockScanChoice == ScanChoice("mock") /\ UNCHANGED callVars

\* the literal each case without input prints
MockText(c) ==
    CASE c = 2 -> "Status: {\n  \"status\": \"healthy\",\n  \"server\": \"phase3-admin\",\n  \"version\": \"1.0.0\",\n  \"frontend_running\": true\n}\n"
      [] c = 3 -> "Frontend: Started on port 8080\n"
      [] c = 5 -> "Config: {\n  \"model\": \"gpt-4\",\n  \"temperature\": 0.7,\n  \"max_tokens\": 1000\n}\n"
      [] c = 6 -> "Database: {\n  \"connected\": true,\n  \"sessions\": 0,\n  \"settings\": 3\n}\n"
      [] c = 7 -> "Settings: {\n  \"debug_level\": 1,\n  \"frontend_port\": 8080,\n  \"agent_model\": \"gpt-4\"\n}\n"

MockDispatch ==
    /\ "mock" \in running
    /\ pc["mock"] = "switch"
    /\ LET c == SwitchCase(choice["mock"])
       IN  /\ site' = [site EXCEPT !["mock"] = c]
           /\ Log("mock", Rd("case", pos["mock"], pos["mock"], c))
           /\ CASE c = 1 ->
                    /\ Say("mock", "Enter prompt: ", <<>>)
                    /\ Goto("mock", "c1_getchar")
                    /\ UNCHANGED status
                [] c = 4 ->
                    /\ Say("mock", "Debug level (0-3): ", <<>>)
                    /\ Goto("mock", "c4_scanf")
                    /\ UNCHANGED status
                [] c \in {2, 3, 5, 6, 7} ->
                    /\ Say("mock", MockText(c), <<>>)
                    /\ Goto("mock", "menu")
                    /\ UNCHANGED status
                [] c = 8 -> ExitCase("mock")
                [] OTHER -> DefaultCase("mock")
    /\ UNCHANGED <<running, envVars, pos, choice, input, menuChoice, nInvalid, callVars>>

\* (mutant: the getchar() that consumes the newline is missing)
MockGetChar_missing ==
    /\ "mock" \in running
    /\ pc["mock"] = "c1_getchar"
    /\ Goto("mock", "c1_fgets")
    /\ UNCHANGED <<running, envVars, pos, site, choice, input, out, status, menuChoice,
                   nInvalid, hist, callVars>>

\* line 35
MockGetChar == GetChar("mock") /\ UNCHANGED callVars

\* lines 36-39
MockFgets ==
    \E old \in Contents(input["mock"]) :
        /\ Fgets("mock", old)
        /\ Say("mock", "Generated: Mock text for '%s'\n", PromptText("mock", old))
        /\ Goto("mock", "menu")
        /\ UNCHANGED callVars

\* lines 56-58
MockScanLevel ==
    /\ ScanLevel("mock")
    /\ Say("mock", "Debug: Level set to %d\n", IntToStr(LevelValue("mock")))
    /\ Goto("mock", "menu")
    /\ UNCHANGED callVars

\* ------------------------------------------------- specifications
InitWith(progs) ==
    /\ running = progs
    /\ typed = <<>>
    /\ closed = FALSE
    /\ nLines = 0
    /\ pos = [v \in Variants |-> 0]
    /\ pc = [v \in Variants |-> "menu"]
    /\ site = [v \in Variants |-> 0]
    /\ choice = [v \in Variants |-> 0]
    /\ input = [v \in Variants |-> Uninit]
    /\ out = [v \in Variants |-> <<>>]
    /\ status = [v \in Variants |-> <<>>]
    /\ menuChoice = [v \in Variants |-> <<>>]
    /\ nInvalid = [v \in Variants |-> 0]
    /\ hist = [v \in Variants |-> <<>>]
    /\ result = Uninit
    /\ frame = NoFrame
    /\ delivered = 0
    /\ entryResult = <<>>
    /\ sentBody = <<>>
    /\ calls = <<>>
    /\ posted = <<>>

\* one of the two programs is run
Init == \E v \in Variants : InitWith({v})

\* both programs are run, each reading the same input
InitPair == InitWith(Variants)

\* the statements of main itself
NetMainStep ==
    \/ NetPrintMenu \/ NetScanChoice \/ NetDispatch \/ NetGetChar \/ NetFgets
    \/ NetScanLevel \/ NetAfterCall

\* the steps inside call_mcp_tool
NetCallStep ==
    \/ CurlInit \/ BuildRequest \/ PerformSend \/ PerformConnectFail
    \/ WriteCallback \/ PerformDone \/ PerformAbort \/ CopyResult \/ Cleanup

NetStep == NetMainStep \/ NetCallStep

MockStep ==
    \/ MockPrintMenu \/ MockScanChoice \/ MockDispatch \/ MockGetChar
    \/ MockFgets \/ MockScanLevel

Next == TypeLine \/ CloseStdin \/ NetStep \/ MockStep

Spec == Init /\ [][Next]_vars

SpecPair == InitPair /\ [][Next]_vars

\* A program that can execute its next statement does so.  This is stated for
\* the statements of main; no timeout is set on the request, so a call to the
\* server is not assumed to return.
FairSpec == Spec /\ WF_vars(NetMainStep) /\ WF_vars(MockStep)

\* =========================================================== claims
Last(q) == q[Len(q)]

CallPcs == {"cmt_init", "cmt_build", "cmt_perform", "cmt_recv", "cmt_copy",
            "cmt_cleanup", "call_return"}

InputPrompts == {"Enter prompt: ", "Debug level (0-3): "}

\* the tool the menu documents for each choice
ToolOfChoice ==
    [c \in 1..7 |->
        <<"generate", "get_status", "start_frontend", "set_debug",
          "get_agent_config", "db_status", "get_settings">>[c]]

\* C1: in the networked program the dispatch on the integer read at the
\* "Choice:" prompt is total and fixed.  Once the loop is back at its head
\* after reading choice c: for c in 1..7 exactly one call_mcp_tool call was
\* made, with the tool of c (and with the arguments text "{}" for 2, 3, 5, 6,
\* 7); for any other integer no call was made and "Invalid choice" was
\* printed; c is never 8 there.  A call is only ever in progress for a choice
\* in 1..7 and for its tool, and the program has exited only after choice 8,
\* with no call made.
C1_DispatchFixed ==
    "net" \in running =>
        LET mc == menuChoice["net"]
            c == mc[1]
        IN  /\ Len(calls) <= 1
            /\ calls # <<>> =>
                  /\ mc # <<>> /\ c \in 1..7
                  /\ calls[1].tool = ToolOfChoice[c]
                  /\ c \in {2, 3, 5, 6, 7} => calls[1].args = EmptyArgs
            /\ (pc["net"] \in CallPcs \/ (pc["net"] = "menu" /\ mc # <<>> /\ c \in 1..7))
                  => Len(calls) = 1
            /\ (pc["net"] = "menu" /\ mc # <<>>) =>
                  /\ c # 8
                  /\ c \notin 1..7 =>
                        calls = <<>> /\ out["net"] = <<Ev("Invalid choice\n", <<>>)>>
            /\ pc["net"] = "exited" => mc = <<8>> /\ calls = <<>>

\* choice 5 has been carried out and the loop is back at its head
C1_Witness ==
    /\ "net" \in running
    /\ pc["net"] = "menu"
    /\ menuChoice["net"] = <<5>>
    /\ Len(calls) = 1
    /\ calls[1].tool = "get_agent_config"
    /\ calls[1].args = EmptyArgs
    /\ calls[1].ret # <<>>

\* C3: whenever call_mcp_tool has returned the failure indicator for one of
\* the actions 1 to 7, the action has printed a line (other than its input
\* prompt) by the time the loop is back at its head.
C3_FailureReported ==
    ("net" \in running /\ pc["net"] = "menu" /\ calls # <<>> /\ calls[1].ret = <<-1>>)
        => \E i \in 1..Len(out["net"]) : out["net"][i].tag \notin InputPrompts

\* C5: whenever call_mcp_tool returns 0, result[] holds the body the server
\* sent for this call, cut to MAX_RESPONSE-1 bytes.
C5_SuccessHoldsBody ==
    ("net" \in running /\ pc["net"] = "call_return" /\ frame.ret = 0)
        => result = Take(sentBody, MAX_RESPONSE - 1)

\* C6: whenever call_mcp_tool returns -1, result[] is what it was when the
\* call was entered, and no response buffer allocated by the call is still
\* allocated.
C6_FailureLeavesResult ==
    ("net" \in running /\ pc["net"] = "call_return" /\ frame.ret = -1)
        => result = entryResult /\ frame.data # "live"

\* a call that had received part of a body has returned -1
C6_Witness ==
    /\ "net" \in running
    /\ pc["net"] = "call_return"
    /\ frame.ret = -1
    /\ frame.data = "freed"
    /\ frame.size > 0
    /\ result = entryResult

\* C4: a program has terminated exactly when the integer 8 was read at the
\* "Choice:" prompt: it has then printed "Goodbye!" last, returned 0 and does
\* nothing more; after any other input (an 8 read at the debug-level prompt,
\* text that is no integer, the end of input) it is still in its loop.
C4_ExitOnlyOnEight ==
    \A v \in running :
        /\ pc[v] = "exited" <=> status[v] # <<>>
        /\ status[v] # <<>> =>
              /\ status[v] = <<0>>
              /\ menuChoice[v] = <<8>>
              /\ out[v] # <<>> /\ Last(out[v]) = Ev("Goodbye!\n", <<>>)
        /\ menuChoice[v] = <<8>> => pc[v] \in {"switch", "exited"}

\* a program has read 8 at the choice prompt and has returned 0
C4_Witness ==
    \E v \in running :
        /\ pc[v] = "exited"
        /\ status[v] = <<0>>
        /\ Last(hist[v]).at = "case"
        /\ Last(hist[v]).val = 8

\* the level action 4 of program v has used, as the text it sent or printed
LevelUsed(v) ==
    IF v = "net"
    THEN IF calls # <<>> /\ calls[1].tool = "set_debug" THEN <<calls[1].args>> ELSE <<>>
    ELSE IF \E i \in 1..Len(out[v]) : out[v][i].tag = "Debug: Level set to %d\n"
         THEN <<Last(out[v]).text>>
         ELSE <<>>

\* the text action 4 of program v uses for level n
LevelText(v, n) == IF v = "net" THEN LevelArgs(n) ELSE IntToStr(n)

\* C7: whenever action 4 has used a level, an integer was read at the
\* "Debug level" prompt just before and the level used is that integer.
C7_LevelIsTheOneRead ==
    \A v \in running :
        LevelUsed(v) # <<>> =>
            /\ Last(hist[v]).at = "level"
            /\ LevelUsed(v) = <<LevelText(v, Last(hist[v]).val)>>

PromptKey == <<"p", "r", "o", "m", "p", "t">>

\* C8: whenever action 1 has sent a request for a prompt line the user typed,
\* the envelope has jsonrpc "2.0", method "tools/call", id 1, params.name
\* "generate" and params.arguments the object {"prompt": p}, p being the
\* characters of that line up to its newline.
C8_PromptEnvelope ==
    ("net" \in running /\ posted # <<>> /\ site["net"] = 1
        /\ Last(hist["net"]).at = "fgets")
    => LET e == Last(hist["net"])
           p == StripNL(SubSeq(typed, e.from + 1, e.to))
           req == Last(posted)
           params == ObjGet(req, "params")
           arguments == ObjGet(params, "arguments")
       IN  /\ ObjGet(req, "jsonrpc") = JStr("2.0")
           /\ ObjGet(req, "method") = JStr("tools/call")
           /\ ObjGet(req, "id") = JInt(1)
           /\ ObjGet(params, "name") = JStr("generate")
           /\ arguments.t = "obj"
           /\ arguments = JObj(<< <<PromptKey, JStr(p)>> >>)

\* C10: when call_mcp_tool is given result[] both as its arguments text and
\* as its output buffer, result[] is not written before the envelope has been
\* built and the request has completed: the envelope is the one built from
\* the text result[] held on entry, and result[] differs from that text only
\* after curl_easy_perform has returned CURLE_OK.
C10_ArgsReadBeforeOverwrite ==
    ("net" \in running /\ pc["net"] \in CallPcs /\ frame.args = "result") =>
        /\ pc["net"] \in {"cmt_init", "cmt_build", "cmt_perform", "cmt_recv", "cmt_copy"}
              => result = entryResult
        /\ frame.curl # "none" /\ pc["net"] # "cmt_build"
              => frame.request = Envelope(frame.tool, entryResult)
        /\ posted # <<>> => Last(posted) = Envelope(frame.tool, entryResult)
        /\ result # entryResult => frame.res = "OK"

\* a call made with result[] as both has overwritten it with the response
C10_Witness ==
    /\ "net" \in running
    /\ pc["net"] = "call_return"
    /\ frame.args = "result"
    /\ frame.ret = 0
    /\ result # entryResult
    /\ Last(posted) = Envelope(frame.tool, entryResult)
    /\ ObjGet(ObjGet(Last(posted), "params"), "arguments").t = "obj"

RECURSIVE DropToken(_)
DropToken(s) == IF s # <<>> /\ ~IsSpace(Head(s)) THEN DropToken(Tail(s)) ELSE s

\* the text s starts with a token that is no integer, and an integer c follows
BadThenChoice(s, c) ==
    /\ SkipSpace(s) # <<>>
    /\ ScanfInt(s, TRUE).status = "fail"
    /\ LET r == ScanfInt(DropToken(SkipSpace(s)), TRUE)
       IN  r.status = "ok" /\ r.val = c

\* C2: a program that waits for a choice while the input holds a token that
\* is no integer, followed by a choice c in 1..8, eventually reads a choice in
\* 1..8 (the first integer it can then read is c).
C2_RecoversFromBadInput ==
    \A v \in Variants :
        (v \in running /\ pc[v] = "choice_scanf"
            /\ \E c \in 1..8 : BadThenChoice(Unread(v), c))
            ~> (menuChoice[v] # <<>> /\ menuChoice[v][1] \in 1..8)

\* the statements of main_simple.c: none of them is inside call_mcp_tool
MockPcs == {"menu", "choice_scanf", "switch", "c1_getchar", "c1_fgets", "c4_scanf",
            "exited"}

\* C9: run on the same input, the two programs make the same reads (same
\* prompt, same characters consumed, same value) and take the same switch
\* cases in the same order, so the record of one is a prefix of the record of
\* the other; neither goes on after the point where the other has exited;
\* the mock program is never inside a network operation.
C9_SameControlFlow ==
    LET hn == hist["net"]
        hm == hist["mock"]
    IN  /\ IsPrefix(hn, hm) \/ IsPrefix(hm, hn)
        /\ pc["net"] = "exited" => Len(hm) <= Len(hn)
        /\ pc["mock"] = "exited" => Len(hn) <= Len(hm)
        /\ pc["mock"] \in MockPcs

\* both programs have carried out action 4, having made the same reads
C9_Witness ==
    /\ running = Variants
    /\ pc["net"] = "menu" /\ pc["mock"] = "menu"
    /\ hist["net"] = hist["mock"]
    /\ Len(hist["net"]) = 3
    /\ hist["net"][3].at = "level"
    /\ LevelUsed("net") # <<>> /\ LevelUsed("mock") # <<>>

====
